---- MODULE Spec2Model ----
(***************************************************************************)
(* traffic_comparator.log_file_loader: ReplayerTriplesFileLoader.          *)
(*                                                                         *)
(* JSON values are tagged records [t, v]:                                  *)
(*   t = "str"  v = the string, a sequence of one-character strings        *)
(*   t = "num"  v = an integer                                             *)
(*   t = "arr"  v = a sequence of values                                   *)
(*   t = "obj"  v = a dict: a sequence of entries [k, v] with distinct     *)
(*                  keys, in insertion order                               *)
(*   t = "null" v = 0 (None)                                               *)
(* A call's outcome is [exc, val]: exc = "none" and val the returned       *)
(* value, or exc the name of the exception raised.                         *)
(***************************************************************************)
EXTENDS Integers, Sequences, FiniteSets, TLC

VARIABLES
    fn,             \* field extractor: the classmethod under call
    arg,            \* field extractor: its argument
    ret,            \* field extractor: its outcome, NotCalled before the call
    requests,       \* heap: the Request objects, a Request's identity is its index
    responses,      \* heap: the Response objects
    pairs,          \* heap: the RequestResponsePair objects [request, response, corresponding_pair]
    origin,         \* for each pair, the <<file number, line number>> it was parsed from
    log_file_paths, \* load: self.log_file_paths
    file_len,       \* load: the number of lines of the file at each path
    pc,             \* load: where the call stands
    file_idx,       \* load: number of the file of the current iteration of line 149, from 1
    line_index,     \* load: the index enumerate gives next (i of line 151)
    open_files,     \* load: the handles that are open, each named by the file_idx that opened it
    lines_read,     \* load: for each file opened so far, the lines read from it
    primaryPairs,   \* load: line 147
    shadowPairs,    \* load: line 148
    result,         \* load: the returned tuple, <<>> while nothing is returned
    log,            \* load: the logger.info records
    io_error,       \* load: file_idx of the file whose open or read raised OSError, 0 if none
    stdin,          \* load_from_stdin: the lines of sys.stdin
    stdin_pos,      \* load_from_stdin: how many of them have been read
    gen,            \* load_from_stdin: the generator's state
    outcomes        \* load_from_stdin: what each next() gave the consumer

fieldVars == <<fn, arg, ret>>
heapVars == <<requests, responses, pairs, origin>>
loadVars == <<log_file_paths, file_len, pc, file_idx, line_index, open_files, lines_read,
              primaryPairs, shadowPairs, result, log, io_error>>
stdinVars == <<stdin, stdin_pos, gen, outcomes>>
vars == <<fieldVars, heapVars, loadVars, stdinVars>>

(***************************************************************************)
(* Bounds.                                                                 *)
(***************************************************************************)
MaxBodyLen == 3     \* longest raw body drawn for _parseBodyAsJson
MaxFields == 5      \* most fields in a record drawn for _parseRequest/_parseResponse
MaxFiles == 2       \* most paths in log_file_paths
MaxTotalLines == 4  \* most lines in all the files of log_file_paths together
MaxStdinLines == 3  \* most lines on sys.stdin

(***************************************************************************)
(* Values.                                                                 *)
(***************************************************************************)
Str(s) == [t |-> "str", v |-> s]
Num(n) == [t |-> "num", v |-> n]
Arr(s) == [t |-> "arr", v |-> s]
Obj(d) == [t |-> "obj", v |-> d]
None == [t |-> "null", v |-> 0]

Return(x) == [exc |-> "none", val |-> x]
Raise(e) == [exc |-> e, val |-> None]
NotCalled == [exc |-> "not called", val |-> None]

\* dict operations: key in d, d[key], and d after d.pop(key)
HasKey(d, key) == \E i \in 1..Len(d) : d[i].k = key
Get(d, key) == d[CHOOSE i \in 1..Len(d) : d[i].k = key].v
Without(d, key) == SelectSeq(d, LAMBDA e : e.k # key)
Keys(d) == {d[i].k : i \in 1..Len(d)}

(***************************************************************************)
(* json.loads on a body.  Bodies are strings over BodyChars; on that       *)
(* alphabet the JSON texts are the numbers 7, 77, ... and the arrays [],   *)
(* [value].  "x" stands for a byte that starts no JSON text (0x1f, the     *)
(* first byte of a gzip stream).                                           *)
(***************************************************************************)
BodyChars == {"[", "]", "7", "x"}

RECURSIVE ScanNumber(_, _, _)
ScanNumber(s, i, acc) ==
    IF i <= Len(s) /\ s[i] = "7"
    THEN ScanNumber(s, i + 1, acc * 10 + 7)
    ELSE [ok |-> TRUE, val |-> Num(acc), next |-> i]

NoParse == [ok |-> FALSE, val |-> None, next |-> 0]

\* the array that holds the element e, when "]" follows it in s
ArrayOf(s, e) ==
    IF e.ok /\ e.next <= Len(s) /\ s[e.next] = "]"
    THEN [ok |-> TRUE, val |-> Arr(<<e.val>>), next |-> e.next + 1]
    ELSE NoParse

RECURSIVE ScanValue(_, _)
ScanValue(s, i) ==
    IF i > Len(s) THEN NoParse
    ELSE IF s[i] = "7" THEN ScanNumber(s, i, 0)
    ELSE IF s[i] = "["
    THEN IF i + 1 <= Len(s) /\ s[i + 1] = "]"
         THEN [ok |-> TRUE, val |-> Arr(<<>>), next |-> i + 2]
         ELSE ArrayOf(s, ScanValue(s, i + 1))
    ELSE NoParse

\* json.loads(rawbody): TypeError unless a str, JSONDecodeError unless the
\* whole string is one JSON text
Decoded(r, length) ==
    IF r.ok /\ r.next = length + 1 THEN Return(r.val) ELSE Raise("JSONDecodeError")

JsonLoads(rawbody) ==
    IF rawbody.t # "str" THEN Raise("TypeError")
    ELSE Decoded(ScanValue(rawbody.v, 1), Len(rawbody.v))

\* except json.JSONDecodeError: ... return rawbody; any other exception leaves
OrRawBody(loaded, rawbody) ==
    IF loaded.exc = "JSONDecodeError" THEN Return(rawbody) ELSE loaded

parseBodyAsJson_NoFallback(rawbody) == JsonLoads(rawbody)

\* _parseBodyAsJson
parseBodyAsJson(rawbody) == OrRawBody(JsonLoads(rawbody), rawbody)

(***************************************************************************)
(* int(x) for the status code.                                             *)
(***************************************************************************)
Digits == <<"0", "1", "2", "3", "4", "5", "6", "7", "8", "9">>
IsDigit(c) == \E d \in 1..Len(Digits) : Digits[d] = c
DigitVal(c) == (CHOOSE d \in 1..Len(Digits) : Digits[d] = c) - 1

RECURSIVE Decimal(_, _)
Decimal(s, acc) ==
    IF s = <<>> THEN acc ELSE Decimal(Tail(s), acc * 10 + DigitVal(Head(s)))

RECURSIVE Strip(_)
Strip(s) ==
    IF s # <<>> /\ Head(s) = " " THEN Strip(Tail(s))
    ELSE IF s # <<>> /\ s[Len(s)] = " " THEN Strip(SubSeq(s, 1, Len(s) - 1))
    ELSE s

IntOfDigits(negative, d) ==
    IF d # <<>> /\ \A j \in 1..Len(d) : IsDigit(d[j])
    THEN Return(Num(IF negative THEN 0 - Decimal(d, 0) ELSE Decimal(d, 0)))
    ELSE Raise("ValueError")

IntOfStripped(s) ==
    IntOfDigits(s # <<>> /\ Head(s) = "-",
                IF s # <<>> /\ Head(s) \in {"-", "+"} THEN Tail(s) ELSE s)

\* int(x): a number as it is, a str by its decimal digits, with a sign and
\* blanks around allowed
PyInt(x) ==
    IF x.t = "num" THEN Return(x)
    ELSE IF x.t # "str" THEN Raise("TypeError")
    ELSE IntOfStripped(Strip(x.v))

(***************************************************************************)
(* _parseResponse and _parseRequest.                                       *)
(***************************************************************************)
ignored_fields == <<"Reason-Phrase", "HTTP-Version">>

\* the loop left after its first field
Discard_FirstOnly(data, fields) ==
    IF fields = <<>> THEN data ELSE Without(data, Head(fields))

\* for field in ignored_fields: if field in data: data.pop(field)
RECURSIVE Discard(_, _)
Discard(data, fields) ==
    IF fields = <<>> THEN data
    ELSE Discard(IF HasKey(data, Head(fields)) THEN Without(data, Head(fields)) ELSE data,
                 Tail(fields))

\* _parseResponse, statement by statement: each step takes what the
\* statements before it left
ResponseHeaders(body, latency, statuscode, data) ==
    IF statuscode.exc # "none" THEN statuscode
    ELSE Return([timestamp |-> None,
                 statuscode |-> statuscode.val,
                 latency |-> latency,
                 headers |-> Discard(data, ignored_fields),
                 body |-> body])

ResponseStatus(body, latency, data) ==
    IF ~HasKey(data, "Status-Code") THEN Raise("KeyError")
    ELSE ResponseHeaders(body, latency, PyInt(Get(data, "Status-Code")),
                         Without(data, "Status-Code"))

ResponseLatency(body, data) ==
    IF body.exc # "none" THEN body
    ELSE IF ~HasKey(data, "response_time_ms") THEN Raise("KeyError")
    ELSE ResponseStatus(body.val, Get(data, "response_time_ms"),
                        Without(data, "response_time_ms"))

parseResponse(responsedata) ==
    IF ~HasKey(responsedata, "body") THEN Raise("KeyError")
    ELSE ResponseLatency(parseBodyAsJson(Get(responsedata, "body")),
                         Without(responsedata, "body"))

\* _parseRequest, likewise
RequestUri(body, http_method, data) ==
    IF ~HasKey(data, "Request-URI") THEN Raise("KeyError")
    ELSE Return([timestamp |-> None,
                 http_method |-> http_method,
                 uri |-> Get(data, "Request-URI"),
                 headers |-> Discard(Without(data, "Request-URI"), ignored_fields),
                 body |-> body])

RequestMethod(body, data) ==
    IF body.exc # "none" THEN body
    ELSE IF ~HasKey(data, "Method") THEN Raise("KeyError")
    ELSE RequestUri(body.val, Get(data, "Method"), Without(data, "Method"))

parseRequest(requestdata) ==
    IF ~HasKey(requestdata, "body") THEN Raise("KeyError")
    ELSE RequestMethod(parseBodyAsJson(Get(requestdata, "body")),
                       Without(requestdata, "body"))

(***************************************************************************)
(* The field extractor on its own: one call of _parseBodyAsJson,           *)
(* _parseRequest or _parseResponse on an argument drawn from a bounded     *)
(* set.                                                                    *)
(***************************************************************************)
RECURSIVE StringsOver(_, _)
StringsOver(chars, n) ==
    IF n = 0 THEN {<<>>}
    ELSE LET shorter == StringsOver(chars, n - 1) IN
         shorter \cup {Append(s, c) : s \in {t \in shorter : Len(t) = n - 1}, c \in chars}

\* every str of at most MaxBodyLen characters, and two values that are no str
RawBodies == {Str(s) : s \in StringsOver(BodyChars, MaxBodyLen)} \cup {Num(7), None}

RequestKeys == {"body", "Method", "Request-URI", "HTTP-Version", "Reason-Phrase",
                "Accept", "reason-phrase"}
ResponseKeys == {"body", "response_time_ms", "Status-Code", "HTTP-Version",
                 "Reason-Phrase", "http-version", "Method"}

\* the values a field takes in the drawn records
FieldValues(key) ==
    CASE key = "body" -> {Str(<<"[", "7", "]">>), Str(<<"x", "7">>)}
      [] key = "Status-Code" -> {Str(<<"2", "0", "0">>), Str(<<"O", "K">>)}
      [] key = "response_time_ms" -> {Num(14)}
      [] key = "Method" -> {Str(<<"G", "E", "T">>)}
      [] key = "Request-URI" -> {Str(<<"/">>)}
      [] key \in {"HTTP-Version", "http-version"} -> {Str(<<"1", ".", "1">>)}
      [] key \in {"Reason-Phrase", "reason-phrase"} -> {Str(<<"O", "K">>)}
      [] OTHER -> {Str(<<"*">>)}

\* the dicts of at most n entries with distinct keys among keys, in every order
RECURSIVE Dicts(_, _)
Dicts(keys, n) ==
    IF n = 0 THEN {<<>>}
    ELSE LET shorter == Dicts(keys, n - 1) IN
         shorter \cup UNION {{Append(d, [k |-> key, v |-> val]) :
                                    val \in FieldValues(key)} :
                                <<d, key>> \in {x \in {e \in shorter : Len(e) = n - 1} \X keys :
                                                 ~HasKey(x[1], x[2])}}

(***************************************************************************)
(* Log lines.  A line has a name, and TextOf gives what json.loads makes   *)
(* of its text: the decoded item, or no JSON text at all.                  *)
(***************************************************************************)
Field(key, val) == [k |-> key, v |-> val]
Status200 == Str(<<"2", "0", "0">>)
Status404 == Str(<<"4", "0", "4">>)

RequestData(body) ==
    <<Field("Accept", Str(<<"*">>)), Field("Request-URI", Str(<<"/">>)),
      Field("Method", Str(<<"G", "E", "T">>)), Field("HTTP-Version", Str(<<"1", ".", "1">>)),
      Field("body", body)>>

ResponseData(status, body, ms) ==
    <<Field("HTTP-Version", Str(<<"1", ".", "1">>)), Field("Reason-Phrase", Str(<<"O", "K">>)),
      Field("Status-Code", status), Field("body", body),
      Field("content-type", Str(<<"j">>)), Field("response_time_ms", Num(ms))>>

Triple(requestdata, primarydata, shadowdata) ==
    [valid_json |-> TRUE,
     item |-> Obj(<<Field("request", Obj(requestdata)),
                    Field("primaryResponse", Obj(primarydata)),
                    Field("shadowResponse", Obj(shadowdata))>>)]

\* the test's LOG_ENTRY: empty request body, JSON response bodies
LOG_ENTRY_JSON ==
    Triple(RequestData(Str(<<>>)),
           ResponseData(Status200, Str(<<"[", "7", "]">>), 14),
           ResponseData(Status200, Str(<<"[", "]">>), 199))
\* the test's GZIP_LOG_ENTRY: response bodies that are no JSON
GZIP_LOG_ENTRY_JSON ==
    Triple(RequestData(Str(<<>>)),
           ResponseData(Status404, Str(<<"x", "[">>), 23),
           ResponseData(Status200, Str(<<"x", "7">>), 12))
NOT_JSON_TEXT == [valid_json |-> FALSE, item |-> None]
NO_SHADOW_JSON ==
    [valid_json |-> TRUE,
     item |-> Obj(<<Field("request", Obj(RequestData(Str(<<>>)))),
                    Field("primaryResponse",
                          Obj(ResponseData(Status200, Str(<<"[", "]">>), 14)))>>)]
NO_METHOD_JSON ==
    Triple(Without(RequestData(Str(<<>>)), "Method"),
           ResponseData(Status200, Str(<<"[", "]">>), 14),
           ResponseData(Status200, Str(<<"[", "]">>), 199))
BAD_SHADOW_STATUS_JSON ==
    Triple(RequestData(Str(<<>>)),
           ResponseData(Status200, Str(<<"[", "]">>), 14),
           ResponseData(Str(<<"O", "K">>), Str(<<"[", "]">>), 199))

\* the lines of the model, each held in the state by its name
LOG_ENTRY == "LOG_ENTRY"
GZIP_LOG_ENTRY == "GZIP_LOG_ENTRY"
NOT_JSON == "NOT_JSON"
NO_SHADOW == "NO_SHADOW"
NO_METHOD == "NO_METHOD"
BAD_SHADOW_STATUS == "BAD_SHADOW_STATUS"

LineSamples == {LOG_ENTRY, GZIP_LOG_ENTRY, NOT_JSON, NO_SHADOW, NO_METHOD, BAD_SHADOW_STATUS}

\* the lines the files hold: one valid line and a line failing at each stage
FileLineSamples == {LOG_ENTRY, NOT_JSON, NO_SHADOW, NO_METHOD, BAD_SHADOW_STATUS}

TextOf ==
    [line \in LineSamples |->
        CASE line = LOG_ENTRY -> LOG_ENTRY_JSON
          [] line = GZIP_LOG_ENTRY -> GZIP_LOG_ENTRY_JSON
          [] line = NOT_JSON -> NOT_JSON_TEXT
          [] line = NO_SHADOW -> NO_SHADOW_JSON
          [] line = NO_METHOD -> NO_METHOD_JSON
          [] line = BAD_SHADOW_STATUS -> BAD_SHADOW_STATUS_JSON]

\* json.loads(line)
JsonLoadsLine(line) ==
    IF TextOf[line].valid_json THEN Return(TextOf[line].item) ELSE Raise("JSONDecodeError")

\* item[key]
Subscript(item, key) ==
    IF item.t # "obj" THEN Raise("TypeError")
    ELSE IF ~HasKey(item.v, key) THEN Raise("KeyError")
    ELSE Return(Get(item.v, key))

(***************************************************************************)
(* RequestResponsePair(request, response, corresponding_pair=None): the    *)
(* object holds the three references it is given.  0 is None.              *)
(***************************************************************************)
RequestResponsePair(request, response, corresponding_pair) ==
    [request |-> request, response |-> response, corresponding_pair |-> corresponding_pair]

\* bool(pair) of a RequestResponsePair object
Truthy(pair) == pair # 0

(***************************************************************************)
(* _parseLine.  The outcome carries the heap after the call and the two    *)
(* pairs returned; when the call raises, the objects it built are          *)
(* unreachable and the heap is the one before the call.                    *)
(***************************************************************************)
LineRaise(e, rq, rs, ps) ==
    [exc |-> e, requests |-> rq, responses |-> rs, pairs |-> ps,
     primaryPair |-> 0, shadowPair |-> 0]

\* line 142 left out
BuildPairs_NoBackReference(rq, rs, ps, request, primaryResponse, shadowResponse) ==
    LET requestId == Len(rq) + 1
        primaryPair == Len(ps) + 1
        shadowPair == Len(ps) + 2
    IN  [exc |-> "none",
         requests |-> Append(rq, request),
         responses |-> rs \o <<primaryResponse, shadowResponse>>,
         pairs |-> ps \o <<RequestResponsePair(requestId, Len(rs) + 1, 0),
                           RequestResponsePair(requestId, Len(rs) + 2, primaryPair)>>,
         primaryPair |-> primaryPair,
         shadowPair |-> shadowPair]

\* the request parsed once for each pair
BuildPairs_RequestPerPair(rq, rs, ps, request, primaryResponse, shadowResponse) ==
    LET primaryPair == Len(ps) + 1
        shadowPair == Len(ps) + 2
    IN  [exc |-> "none",
         requests |-> rq \o <<request, request>>,
         responses |-> rs \o <<primaryResponse, shadowResponse>>,
         pairs |-> ps \o <<RequestResponsePair(Len(rq) + 1, Len(rs) + 1, shadowPair),
                           RequestResponsePair(Len(rq) + 2, Len(rs) + 2, primaryPair)>>,
         primaryPair |-> primaryPair,
         shadowPair |-> shadowPair]

\* lines 137-144 once the three records are parsed: the objects are
\* allocated in the order the code builds them
BuildPairs(rq, rs, ps, request, primaryResponse, shadowResponse) ==
    LET requestId == Len(rq) + 1
        primaryResponseId == Len(rs) + 1
        primaryPair == Len(ps) + 1
        pairs1 == Append(ps, RequestResponsePair(requestId, primaryResponseId, 0))
        shadowResponseId == Len(rs) + 2
        shadowPair == Len(pairs1) + 1
        pairs2 == Append(pairs1, RequestResponsePair(requestId, shadowResponseId, primaryPair))
        pairs3 == [pairs2 EXCEPT ![primaryPair].corresponding_pair = shadowPair]
    IN  [exc |-> "none",
         requests |-> Append(rq, request),
         responses |-> rs \o <<primaryResponse, shadowResponse>>,
         pairs |-> pairs3,
         primaryPair |-> primaryPair,
         shadowPair |-> shadowPair]

\* lines 129-140 without the objects' allocation: the three parsed records,
\* or the first exception, in the order the code raises them
TripleRaise(e) ==
    [exc |-> e, request |-> None, primaryResponse |-> None, shadowResponse |-> None]

\* a section handed to its parser, whose first statement is data.pop
ParseSection(kind, data) ==
    IF data.t # "obj" THEN Raise("AttributeError")
    ELSE IF kind = "request" THEN parseRequest(data.v)
    ELSE parseResponse(data.v)

TripleShadow(request, primaryResponse, shadowResponse) ==
    IF shadowResponse.exc # "none" THEN TripleRaise(shadowResponse.exc)
    ELSE [exc |-> "none", request |-> request, primaryResponse |-> primaryResponse,
          shadowResponse |-> shadowResponse.val]

TriplePrimary(request, primaryResponse, shadowResponseData) ==
    IF primaryResponse.exc # "none" THEN TripleRaise(primaryResponse.exc)
    ELSE TripleShadow(request, primaryResponse.val,
                      ParseSection("response", shadowResponseData))

TripleRequest(request, primaryResponseData, shadowResponseData) ==
    IF request.exc # "none" THEN TripleRaise(request.exc)
    ELSE TriplePrimary(request.val, ParseSection("response", primaryResponseData),
                       shadowResponseData)

TripleSections(requestdata, primaryResponseData, shadowResponseData) ==
    IF requestdata.exc # "none" THEN TripleRaise(requestdata.exc)
    ELSE IF primaryResponseData.exc # "none" THEN TripleRaise(primaryResponseData.exc)
    ELSE IF shadowResponseData.exc # "none" THEN TripleRaise(shadowResponseData.exc)
    ELSE TripleRequest(ParseSection("request", requestdata.val),
                       primaryResponseData.val, shadowResponseData.val)

TripleItem(item) ==
    IF item.exc # "none" THEN TripleRaise(item.exc)
    ELSE TripleSections(Subscript(item.val, "request"),
                        Subscript(item.val, "primaryResponse"),
                        Subscript(item.val, "shadowResponse"))

parseTriple(line) == TripleItem(JsonLoadsLine(line))

\* parseTriple on the lines of the model, evaluated once
TripleOf == [line \in LineSamples |-> parseTriple(line)]

LinePairs(t, rq, rs, ps) ==
    IF t.exc # "none" THEN LineRaise(t.exc, rq, rs, ps)
    ELSE BuildPairs(rq, rs, ps, t.request, t.primaryResponse, t.shadowResponse)

\* _parseLine
parseLine(line, rq, rs, ps) == LinePairs(TripleOf[line], rq, rs, ps)

(***************************************************************************)
(* The parts of the state a specification does not use.                    *)
(***************************************************************************)
HeapEmpty == requests = <<>> /\ responses = <<>> /\ pairs = <<>> /\ origin = <<>>
FieldIdle == fn = "none" /\ arg = None /\ ret = NotCalled
LoadIdle ==
    /\ log_file_paths = <<>> /\ file_len = <<>> /\ pc = "idle"
    /\ file_idx = 0 /\ line_index = 0 /\ open_files = {} /\ lines_read = <<>>
    /\ primaryPairs = <<>> /\ shadowPairs = <<>> /\ result = <<>>
    /\ log = <<>> /\ io_error = 0
StdinIdle == stdin = <<>> /\ stdin_pos = 0 /\ gen = "none" /\ outcomes = <<>>

FieldInit ==
    /\ HeapEmpty /\ LoadIdle /\ StdinIdle
    /\ ret = NotCalled
    /\ \/ fn = "_parseBodyAsJson" /\ arg \in RawBodies
       \/ fn = "_parseRequest" /\ arg \in Dicts(RequestKeys, MaxFields)
       \/ fn = "_parseResponse" /\ arg \in Dicts(ResponseKeys, MaxFields)

Call_parseBodyAsJson ==
    /\ fn = "_parseBodyAsJson" /\ ret = NotCalled
    /\ ret' = parseBodyAsJson(arg)
    /\ UNCHANGED <<fn, arg, heapVars, loadVars, stdinVars>>

Call_parseRequest ==
    /\ fn = "_parseRequest" /\ ret = NotCalled
    /\ ret' = parseRequest(arg)
    /\ UNCHANGED <<fn, arg, heapVars, loadVars, stdinVars>>

Call_parseResponse ==
    /\ fn = "_parseResponse" /\ ret = NotCalled
    /\ ret' = parseResponse(arg)
    /\ UNCHANGED <<fn, arg, heapVars, loadVars, stdinVars>>

FieldNext == Call_parseBodyAsJson \/ Call_parseRequest \/ Call_parseResponse

SpecFields == FieldInit /\ [][FieldNext]_vars

(***************************************************************************)
(* load().  The paths are named 1, 2, ...; file_len gives the number of    *)
(* lines of the file at each path.  What a line holds is drawn when the    *)
(* line is read and kept in lines_read.  open() and the read of a line may *)
(* raise OSError.                                                          *)
(***************************************************************************)
\* the sequences of n file lengths that sum to at most budget
RECURSIVE FileLens(_, _)
FileLens(n, budget) ==
    IF n = 0 THEN {<<>>}
    ELSE UNION {{<<len>> \o rest : rest \in FileLens(n - 1, budget - len)} :
                len \in 0..budget}

Init ==
    /\ FieldIdle /\ HeapEmpty /\ StdinIdle
    /\ \E n \in 0..MaxFiles :
          /\ log_file_paths = [k \in 1..n |-> k]
          /\ file_len \in FileLens(n, MaxTotalLines)
    /\ pc = "constructed"
    /\ file_idx = 0 /\ line_index = 0 /\ open_files = {} /\ lines_read = <<>>
    /\ primaryPairs = <<>> /\ shadowPairs = <<>> /\ result = <<>>
    /\ log = <<>> /\ io_error = 0

\* the line number counted over all the files
ErrorRecord_GlobalLine(file_path, line, e) ==
    [event |-> "error", file_path |-> file_path,
     line |-> Len(primaryPairs) + Len(SelectSeq(log, LAMBDA rec : rec.event = "error")),
     exc |-> e, primary |-> 0, shadow |-> 0]

\* lines 159-160 and line 161
ErrorRecord(file_path, line, e) ==
    [event |-> "error", file_path |-> file_path, line |-> line, exc |-> e,
     primary |-> 0, shadow |-> 0]
LoadedRecord(file_path, primary, shadow) ==
    [event |-> "loaded", file_path |-> file_path, line |-> 0, exc |-> "none",
     primary |-> primary, shadow |-> shadow]

AppendPair_Prepends(stream, pair) ==
    IF Truthy(pair) THEN <<pair>> \o stream ELSE stream

\* lines 154-157: if pair: stream.append(pair)
AppendPair(stream, pair) ==
    IF Truthy(pair) THEN Append(stream, pair) ELSE stream

\* lines 146-148
load_enter ==
    /\ pc = "constructed"
    /\ primaryPairs' = <<>> /\ shadowPairs' = <<>>
    /\ pc' = "for_file"
    /\ UNCHANGED <<fieldVars, heapVars, stdinVars, log_file_paths, file_len, file_idx,
                   line_index, open_files, lines_read, result, log, io_error>>

\* lines 149-151: the next path is opened and enumerate starts at 0
load_open ==
    /\ pc = "for_file" /\ file_idx < Len(log_file_paths)
    /\ file_idx' = file_idx + 1
    /\ open_files' = open_files \cup {file_idx + 1}
    /\ lines_read' = Append(lines_read, <<>>)
    /\ line_index' = 0
    /\ pc' = "in_file"
    /\ UNCHANGED <<fieldVars, heapVars, stdinVars, log_file_paths, file_len,
                   primaryPairs, shadowPairs, result, log, io_error>>

\* the failure to open handled like a line's: logged, and on to the next path
load_open_raises_Skipped ==
    /\ pc = "for_file" /\ file_idx < Len(log_file_paths)
    /\ file_idx' = file_idx + 1
    /\ io_error' = file_idx + 1
    /\ lines_read' = Append(lines_read, <<>>)
    /\ UNCHANGED <<fieldVars, heapVars, stdinVars, log_file_paths, file_len, line_index,
                   open_files, pc, primaryPairs, shadowPairs, result, log>>

\* line 150: open() raises; nothing in load() catches it
load_open_raises ==
    /\ pc = "for_file" /\ file_idx < Len(log_file_paths)
    /\ file_idx' = file_idx + 1
    /\ io_error' = file_idx + 1
    /\ pc' = "raised"
    /\ UNCHANGED <<fieldVars, heapVars, stdinVars, log_file_paths, file_len, line_index,
                   open_files, lines_read, primaryPairs, shadowPairs, result, log>>

\* the shadow pair never appended
LineOutcome_PrimaryOnly(line, r) ==
    /\ lines_read' = [lines_read EXCEPT ![file_idx] = Append(@, line)]
    /\ requests' = r.requests /\ responses' = r.responses /\ pairs' = r.pairs
    /\ IF r.exc = "none"
       THEN /\ primaryPairs' = AppendPair(primaryPairs, r.primaryPair)
            /\ shadowPairs' = shadowPairs
            /\ origin' = origin \o << <<file_idx, line_index>>, <<file_idx, line_index>> >>
            /\ log' = log
       ELSE /\ log' = Append(log, ErrorRecord(log_file_paths[file_idx], line_index, r.exc))
            /\ UNCHANGED <<primaryPairs, shadowPairs, origin>>

\* lines 152-160 for the line read, r what _parseLine gave
LineOutcome(line, r) ==
    /\ lines_read' = [lines_read EXCEPT ![file_idx] = Append(@, line)]
    /\ requests' = r.requests /\ responses' = r.responses /\ pairs' = r.pairs
    /\ IF r.exc = "none"
       THEN /\ primaryPairs' = AppendPair(primaryPairs, r.primaryPair)
            /\ shadowPairs' = AppendPair(shadowPairs, r.shadowPair)
            /\ origin' = origin \o << <<file_idx, line_index>>, <<file_idx, line_index>> >>
            /\ log' = log
       ELSE /\ log' = Append(log, ErrorRecord(log_file_paths[file_idx], line_index, r.exc))
            /\ UNCHANGED <<primaryPairs, shadowPairs, origin>>

\* lines 151-160: one iteration of the loop over the lines of the file
load_line ==
    /\ pc = "in_file" /\ line_index < file_len[log_file_paths[file_idx]]
    /\ \E line \in FileLineSamples :
          LineOutcome(line, parseLine(line, requests, responses, pairs))
    /\ line_index' = line_index + 1
    /\ UNCHANGED <<fieldVars, stdinVars, log_file_paths, file_len, pc, file_idx,
                   open_files, result, io_error>>

\* the file opened without the with statement
load_read_raises_Leaks ==
    /\ pc = "in_file"
    /\ io_error' = file_idx
    /\ pc' = "raised"
    /\ UNCHANGED <<fieldVars, heapVars, stdinVars, log_file_paths, file_len, file_idx,
                   line_index, open_files, lines_read, primaryPairs, shadowPairs, result,
                   log>>

\* line 151: reading the next line raises; the with statement closes the
\* file and the exception leaves load()
load_read_raises ==
    /\ pc = "in_file"
    /\ open_files' = open_files \ {file_idx}
    /\ io_error' = file_idx
    /\ pc' = "raised"
    /\ UNCHANGED <<fieldVars, heapVars, stdinVars, log_file_paths, file_len, file_idx,
                   line_index, lines_read, primaryPairs, shadowPairs, result, log>>

\* end of the file: the with statement closes it, then line 161
load_close ==
    /\ pc = "in_file" /\ line_index = file_len[log_file_paths[file_idx]]
    /\ open_files' = open_files \ {file_idx}
    /\ log' = Append(log, LoadedRecord(log_file_paths[file_idx],
                                        Len(primaryPairs), Len(shadowPairs)))
    /\ pc' = "for_file"
    /\ UNCHANGED <<fieldVars, heapVars, stdinVars, log_file_paths, file_len, file_idx,
                   line_index, lines_read, primaryPairs, shadowPairs, result, io_error>>

\* line 162
load_return ==
    /\ pc = "for_file" /\ file_idx = Len(log_file_paths)
    /\ result' = <<primaryPairs, shadowPairs>>
    /\ pc' = "returned"
    /\ UNCHANGED <<fieldVars, heapVars, stdinVars, log_file_paths, file_len, file_idx,
                   line_index, open_files, lines_read, primaryPairs, shadowPairs, log,
                   io_error>>

Next ==
    \/ load_enter
    \/ load_open
    \/ load_open_raises
    \/ load_line
    \/ load_read_raises
    \/ load_close
    \/ load_return

Spec == Init /\ [][Next]_vars

(***************************************************************************)
(* load_from_stdin().  The generator runs only inside next(); an exception *)
(* that leaves its frame finishes it, and next() on a finished generator   *)
(* raises StopIteration.                                                   *)
(***************************************************************************)
Outcome(e, primaryPair, shadowPair) ==
    [exc |-> e, primaryPair |-> primaryPair, shadowPair |-> shadowPair]

StdinInit ==
    /\ FieldIdle /\ HeapEmpty /\ LoadIdle
    /\ stdin \in StringsOver(LineSamples, MaxStdinLines)
    /\ stdin_pos = 0 /\ gen = "none" /\ outcomes = <<>>

\* the call: a generator object, none of its code run yet
stdin_call ==
    /\ gen = "none"
    /\ gen' = "created"
    /\ UNCHANGED <<fieldVars, heapVars, loadVars, stdin, stdin_pos, outcomes>>

\* line 167 for the line read, r what _parseLine gave: the yield of the
\* tuple, or the exception that leaves the generator
YieldOrRaise(r) ==
    /\ stdin_pos' = stdin_pos + 1
    /\ requests' = r.requests /\ responses' = r.responses /\ pairs' = r.pairs
    /\ outcomes' = Append(outcomes, Outcome(r.exc, r.primaryPair, r.shadowPair))
    /\ IF r.exc = "none"
       THEN /\ gen' = "suspended"
            /\ origin' = origin \o << <<0, stdin_pos>>, <<0, stdin_pos>> >>
       ELSE /\ gen' = "finished"
            /\ origin' = origin

\* next() on the generator: lines 166-167 up to the yield, the exception or
\* the end of sys.stdin
stdin_next ==
    /\ gen \in {"created", "suspended"}
    /\ IF stdin_pos = Len(stdin)
       THEN /\ gen' = "finished"
            /\ outcomes' = Append(outcomes, Outcome("StopIteration", 0, 0))
            /\ UNCHANGED <<heapVars, stdin_pos>>
       ELSE YieldOrRaise(parseLine(stdin[stdin_pos + 1], requests, responses, pairs))
    /\ UNCHANGED <<fieldVars, loadVars, stdin>>

\* next() once more by a consumer that caught the line's exception
stdin_next_finished ==
    /\ gen = "finished"
    /\ outcomes[Len(outcomes)].exc # "StopIteration"
    /\ outcomes' = Append(outcomes, Outcome("StopIteration", 0, 0))
    /\ UNCHANGED <<fieldVars, heapVars, loadVars, stdin, stdin_pos, gen>>

StdinNext == stdin_call \/ stdin_next \/ stdin_next_finished

SpecStdin == StdinInit /\ [][StdinNext]_vars

(***************************************************************************)
(* What the claims speak of, stated apart from the parsing code.           *)
(***************************************************************************)
NumericStatus(x) ==
    \/ x.t = "num"
    \/ /\ x.t = "str" /\ x.v # <<>>
       /\ \A j \in 1..Len(x.v) : x.v[j] \in {"0", "1", "2", "3", "4", "5", "6", "7", "8", "9"}

HasSection(line, name) ==
    /\ HasKey(line.item.v, name)
    /\ Get(line.item.v, name).t = "obj"

ValidRequestData(d) ==
    /\ {"body", "Method", "Request-URI"} \subseteq Keys(d)
    /\ Get(d, "body").t = "str"

ValidResponseData(d) ==
    /\ {"body", "response_time_ms", "Status-Code"} \subseteq Keys(d)
    /\ Get(d, "body").t = "str"
    /\ NumericStatus(Get(d, "Status-Code"))

\* a line that is JSON, holds the three sections, each with its required
\* fields, and numeric status codes
ValidLine(line) ==
    /\ line.valid_json
    /\ line.item.t = "obj"
    /\ \A name \in {"request", "primaryResponse", "shadowResponse"} : HasSection(line, name)
    /\ ValidRequestData(Get(line.item.v, "request").v)
    /\ ValidResponseData(Get(line.item.v, "primaryResponse").v)
    /\ ValidResponseData(Get(line.item.v, "shadowResponse").v)

IsValid == [line \in LineSamples |-> ValidLine(TextOf[line])]

\* the <<file number, line number>> of the lines read so far from file f on
\* that are valid (want = TRUE) or not (want = FALSE), in reading order
RECURSIVE PositionsFrom(_, _)
PositionsFrom(f, want) ==
    IF f > Len(lines_read) THEN <<>>
    ELSE SelectSeq([k \in 1..Len(lines_read[f]) |-> <<f, k - 1>>],
                   LAMBDA pos : IsValid[lines_read[f][pos[2] + 1]] = want)
         \o PositionsFrom(f + 1, want)

\* the number of lines read so far from all the files
RECURSIVE SumLen(_)
SumLen(seqs) == IF seqs = <<>> THEN 0 ELSE Len(Head(seqs)) + SumLen(Tail(seqs))
LinesRead == SumLen(lines_read)

ValidPositions == PositionsFrom(1, TRUE)
InvalidPositions == PositionsFrom(1, FALSE)

ErrorLog == SelectSeq(log, LAMBDA rec : rec.event = "error")
StreamPairs == {primaryPairs[k] : k \in 1..Len(primaryPairs)}
                   \cup {shadowPairs[k] : k \in 1..Len(shadowPairs)}
LineAt(pos) == lines_read[pos[1]][pos[2] + 1]

(***************************************************************************)
(* C1: at every index of the two streams the pairs point at each other:    *)
(* the primary pair's corresponding_pair is the shadow pair of the same    *)
(* index and the other way round; no pair in a stream has an unset         *)
(* corresponding_pair or one that points at a pair of another line.        *)
(***************************************************************************)
C1_SymmetricCycle ==
    /\ Len(primaryPairs) = Len(shadowPairs)
    /\ \A k \in 1..Len(primaryPairs) :
          /\ pairs[primaryPairs[k]].corresponding_pair = shadowPairs[k]
          /\ pairs[shadowPairs[k]].corresponding_pair = primaryPairs[k]
          /\ primaryPairs[k] # shadowPairs[k]
    /\ \A p \in StreamPairs :
          /\ pairs[p].corresponding_pair # 0
          /\ origin[pairs[p].corresponding_pair] = origin[p]

C1_Witness ==
    /\ pc = "returned" /\ Len(result[1]) = 2
    /\ pairs[result[1][2]].corresponding_pair = result[2][2]

(***************************************************************************)
(* C2: two pairs in the streams hold the same Request object exactly when  *)
(* they were parsed from the same line, textually identical lines          *)
(* included, and no Response object is held by two pairs.                  *)
(***************************************************************************)
C2_RequestSharedWithinLineOnly ==
    /\ \A k \in 1..Len(primaryPairs) :
          k <= Len(shadowPairs) =>
              pairs[primaryPairs[k]].request = pairs[shadowPairs[k]].request
    /\ \A p, q \in StreamPairs :
          /\ (pairs[p].request = pairs[q].request) <=> (origin[p] = origin[q])
          /\ (pairs[p].response = pairs[q].response) => p = q

\* two identical lines, both parsed
C2_Witness ==
    /\ pc = "returned" /\ Len(primaryPairs) = 2
    /\ LineAt(origin[primaryPairs[1]]) = LineAt(origin[primaryPairs[2]])
    /\ pairs[primaryPairs[1]].request # pairs[primaryPairs[2]].request

(***************************************************************************)
(* C3: after every step of load() and on its return both streams are as    *)
(* long as the number of valid lines read so far; a line that fails at any *)
(* stage adds to neither.                                                  *)
(***************************************************************************)
C3_EqualLengths ==
    LET parsed == Len(ValidPositions) IN
    /\ Len(primaryPairs) = parsed
    /\ Len(shadowPairs) = parsed
    /\ pc = "returned" => Len(result[1]) = parsed /\ Len(result[2]) = parsed

\* a valid line, then a line whose shadow response fails after request and
\* primary response were built, a line that is no JSON and a request without Method
C3_Witness ==
    /\ pc = "returned"
    /\ lines_read = << <<LOG_ENTRY, BAD_SHADOW_STATUS, NOT_JSON, NO_METHOD>> >>
    /\ Len(primaryPairs) = 1

(***************************************************************************)
(* C4: the pairs of each stream are in the order of their lines, files in  *)
(* the order of log_file_paths and lines in file order, failed lines left  *)
(* out; index k of both streams is from the same line and carries that     *)
(* line's data.                                                            *)
(***************************************************************************)
C4_InputOrder ==
    /\ LET parsed == ValidPositions IN
       /\ [k \in 1..Len(primaryPairs) |-> origin[primaryPairs[k]]] = parsed
       /\ [k \in 1..Len(shadowPairs) |-> origin[shadowPairs[k]]] = parsed
    /\ \A p \in StreamPairs :
          requests[pairs[p].request] = TripleOf[LineAt(origin[p])].request
    /\ \A k \in 1..Len(primaryPairs) :
          responses[pairs[primaryPairs[k]].response]
              = TripleOf[LineAt(origin[primaryPairs[k]])].primaryResponse
    /\ \A k \in 1..Len(shadowPairs) :
          responses[pairs[shadowPairs[k]].response]
              = TripleOf[LineAt(origin[shadowPairs[k]])].shadowResponse

\* a skipped line between the pairs of the first file and those of the second
C4_Witness ==
    /\ pc = "returned" /\ Len(log_file_paths) = 2
    /\ lines_read = << <<LOG_ENTRY, NO_SHADOW>>, <<LOG_ENTRY, LOG_ENTRY>> >>
    /\ Len(result[1]) = 3
    /\ origin[result[1][2]] = <<2, 0>> /\ origin[result[2][3]] = <<2, 1>>

(***************************************************************************)
(* C5: a line's parse error never ends load(): the only exception that     *)
(* leaves it is an I/O error; each failed line leaves exactly one error    *)
(* record, with the file's path and the line's number counted from 0 in    *)
(* its file; and when load() returns every line of every file was          *)
(* attempted once, ending as a pair in each stream or as an error record.  *)
(***************************************************************************)
C5_ErrorsSkippedAndLogged ==
    LET errors == ErrorLog
        failed == InvalidPositions
    IN
    /\ pc = "raised" => io_error # 0
    /\ Len(errors) = Len(failed)
    /\ \A k \in 1..Len(errors) :
          /\ errors[k].file_path = log_file_paths[failed[k][1]]
          /\ errors[k].line = failed[k][2]
    /\ pc = "returned" =>
          /\ Len(lines_read) = Len(log_file_paths)
          /\ \A f \in 1..Len(log_file_paths) :
                Len(lines_read[f]) = file_len[log_file_paths[f]]
          /\ Len(primaryPairs) + Len(errors) = LinesRead

\* two files, each a valid line and a line without shadowResponse
C5_Witness ==
    /\ pc = "returned"
    /\ lines_read = << <<LOG_ENTRY, NO_SHADOW>>, <<NO_SHADOW, LOG_ENTRY>> >>
    /\ Len(result[1]) = 2 /\ Len(result[2]) = 2
    /\ Len(ErrorLog) = 2
    /\ ErrorLog[1].file_path = log_file_paths[1] /\ ErrorLog[1].line = 1
    /\ ErrorLog[2].file_path = log_file_paths[2] /\ ErrorLog[2].line = 0

(***************************************************************************)
(* C6: when the sequence of load_from_stdin() has ended, the consumer has  *)
(* had one outcome for each line of standard input, in order: a tuple for  *)
(* a valid line, an exception for another.                                 *)
(***************************************************************************)
C6_OneOutcomePerLine ==
    (outcomes # <<>> /\ outcomes[Len(outcomes)].exc = "StopIteration") =>
        /\ Len(outcomes) = Len(stdin) + 1
        /\ \A k \in 1..Len(stdin) : (outcomes[k].exc = "none") <=> IsValid[stdin[k]]

(***************************************************************************)
(* C7: an I/O error on a path ends load() with that exception: nothing is  *)
(* returned, no later path is opened, and the failure is not logged as a   *)
(* skipped line.                                                           *)
(***************************************************************************)
C7_IOErrorFatal ==
    /\ io_error # 0 =>
          /\ pc = "raised"
          /\ result = <<>>
          /\ file_idx = io_error
          /\ Len(lines_read) <= io_error
          /\ Len(ErrorLog) = Len(InvalidPositions)
    /\ pc = "returned" => io_error = 0

\* the second path fails after the first gave a pair
C7_Witness ==
    /\ pc = "raised" /\ io_error = 2 /\ Len(primaryPairs) > 0
    /\ Len(lines_read) = 1

(***************************************************************************)
(* C8: the headers of a parsed request or response are the record's        *)
(* fields, in the record's order and with their values, without the known  *)
(* fields of the kind and without Reason-Phrase and HTTP-Version; those    *)
(* two keys are never among the headers.                                   *)
(***************************************************************************)
KnownFields(kind) ==
    IF kind = "_parseRequest" THEN {"body", "Method", "Request-URI"}
    ELSE {"body", "response_time_ms", "Status-Code"}

RECURSIVE DigitsOf(_)
DigitsOf(n) ==
    IF n < 10 THEN <<Digits[n + 1]>>
    ELSE Append(DigitsOf(n \div 10), Digits[(n % 10) + 1])

\* the JSON text of a value
RECURSIVE Encode(_)
Encode(value) ==
    IF value.t = "num" THEN DigitsOf(value.v)
    ELSE IF value.v = <<>> THEN <<"[", "]">>
    ELSE <<"[">> \o Encode(value.v[1]) \o <<"]">>

RECURSIVE Sevens(_)
Sevens(n) == IF n = 0 THEN 0 ELSE 10 * Sevens(n - 1) + 7

\* the values whose JSON text over BodyChars has at most n characters
RECURSIVE JsonValues(_)
JsonValues(n) ==
    IF n <= 0 THEN {}
    ELSE {Num(Sevens(k)) : k \in 1..n}
         \cup (IF n >= 2 THEN {Arr(<<>>)} ELSE {})
         \cup {Arr(<<value>>) : value \in JsonValues(n - 2)}

Spelled(s) == {value \in JsonValues(Len(s)) : Encode(value) = s}

ExpectedBody(rawbody) ==
    IF Spelled(rawbody.v) # {} THEN CHOOSE value \in Spelled(rawbody.v) : TRUE
    ELSE rawbody

C9_BodyFallback ==
    /\ (fn = "_parseBodyAsJson" /\ ret # NotCalled /\ arg.t = "str") =>
          ret = Return(ExpectedBody(arg))
    /\ (/\ fn = "_parseRequest" /\ ret # NotCalled
        /\ ValidRequestData(arg)) =>
          ret.exc = "none" /\ ret.val.body = ExpectedBody(Get(arg, "body"))
    /\ (/\ fn = "_parseResponse" /\ ret # NotCalled
        /\ ValidResponseData(arg)) =>
          ret.exc = "none" /\ ret.val.body = ExpectedBody(Get(arg, "body"))

\* a body that begins like a gzip stream comes back as it is
C9_Witness ==
    /\ fn = "_parseBodyAsJson"
    /\ arg = Str(<<"x", "[", "]">>)
    /\ ret = Return(arg)

(***************************************************************************)
(* C10: at most one file is open at a time, and it is the file of the      *)
(* current iteration; none is open when the next path is taken, nor once   *)
(* load() has returned or raised, whatever lines failed to parse.          *)
(***************************************************************************)
C10_FilesClosed ==
    /\ Cardinality(open_files) <= 1
    /\ pc = "in_file" => open_files = {file_idx}
    /\ pc \in {"constructed", "for_file", "returned", "raised"} => open_files = {}

\* the read fails in a file in which a line had failed to parse
C10_Witness ==
    /\ pc = "raised" /\ io_error = 2 /\ Len(lines_read) = 2
    /\ lines_read[2] = <<NOT_JSON>>
    /\ open_files = {}

====
